---- MODULE Spec2Model ----
(***************************************************************************)
(* video2ascii (src/src/main.cpp): conversion of video frames to coloured  *)
(* ASCII text, in preload (batch, multi-threaded) and streaming mode.      *)
(*                                                                         *)
(* Strings are sequences of one-character strings; "ESC" stands for the    *)
(* single control character 0x1B.  A double or float value is kept as the  *)
(* exact fraction num/den it was computed from (see Frac).                 *)
(***************************************************************************)
EXTENDS Integers, Sequences, FiniteSets, TLC

(* ------------------------------ bounds --------------------------------- *)

\* Largest number of frames the video yields in the batch/streaming model.
MaxFrames == 4

\* Largest value std::thread::hardware_concurrency() returns in the model.
MaxThreads == 2

\* Largest frame height and width drawn for the frame converter.
MaxRows == 2

MaxCols == 2

(* --------------------------- program constants ------------------------- *)

\* const std::string ASCII_CHARS = ".-:=+*%#@$";
ASCII_CHARS == <<".", "-", ":", "=", "+", "*", "%", "#", "@", "$">>

\* constexpr int bar_width = 50;
bar_width == 50

\* An 8-bit channel (cv::Vec3b holds uchar values).
MaxChannel == 255

\* The decimal digits std::to_string writes.
Digits == <<"0", "1", "2", "3", "4", "5", "6", "7", "8", "9">>

\* No thread holds progress_mutex.
NoOwner == -1

(* ------------------------- floating-point values ----------------------- *)
(* A float/double is represented by the exact fraction of the integers it  *)
(* was computed from.  The comparisons and truncations below agree with    *)
(* the IEEE results as long as no exact value lies within rounding error   *)
(* (2^-20 relative is ample) of a decision boundary:                       *)
(*  - pixel*10/256 with pixel = s/3.0, s in 0..765: the exact value        *)
(*    10s/768 is an integer only for s = 0 and s = 384, where every        *)
(*    intermediate result is exact, and is otherwise at least 1/384 away   *)
(*    from an integer;                                                     *)
(*  - progress - last_progress < 0.05f, bar_width * progress and           *)
(*    progress * 100 with progress = completed / total_frames: the float   *)
(*    results are the exact ones for every total_frames in 1..39 except    *)
(*    20, where a difference of one frame is 0.05 exactly.  The frame      *)
(*    counts of the specifications below stay clear of 20.                 *)
(***************************************************************************)
Frac(n, d) == [num |-> n, den |-> d]

\* a - b < 0.05, for fractions with positive denominators.
DiffBelowThreshold(a, b) ==
    20 * (a.num * b.den - b.num * a.den) < a.den * b.den

\* a < b, for fractions with positive denominators.
FracLess(a, b) == a.num * b.den < b.num * a.den

\* static_cast<int>(k * f) for a fraction f >= 0.
ScaleToInt(k, f) == (k * f.num) \div f.den

(* ------------------------------ glyph mapper --------------------------- *)

RampIndex_scaled255(pixel) ==
    (pixel.num * Len(ASCII_CHARS)) \div (pixel.den * 255)

\* static_cast<int>(pixel * ASCII_CHARS.size() / 256), for pixel >= 0.
RampIndex(pixel) ==
    (pixel.num * Len(ASCII_CHARS)) \div (pixel.den * 256)

\* str[idx] of a std::string, idx in 0..size(): the element at size() is the
\* terminating null character.
CharAt(str, idx) == IF idx = Len(str) THEN "NUL" ELSE str[idx + 1]

\* char pixel_to_ascii(double pixel)
pixel_to_ascii(pixel) == CharAt(ASCII_CHARS, RampIndex(pixel))

(* ------------------------------ colour encoder ------------------------- *)

RECURSIVE to_string(_)
\* std::to_string(int) for a non-negative int: decimal, no leading zeros.
to_string(n) ==
    IF n < 10 THEN <<Digits[n + 1]>>
    ELSE to_string(n \div 10) \o <<Digits[(n % 10) + 1]>>

\* The literal "\033[38;2;" of apply_color_to_ascii.
EscapePrefix == <<"ESC", "[", "3", "8", ";", "2", ";">>

apply_color_to_ascii_int_mean(pixel) ==
    LET r == pixel[3]
        g == pixel[2]
        b == pixel[1]
    IN  EscapePrefix \o to_string(r) \o <<";">> \o to_string(g) \o <<";">>
            \o to_string(b) \o <<"m">>
            \o <<pixel_to_ascii(Frac((r + g + b) \div 3, 1))>>

\* std::string apply_color_to_ascii(const cv::Vec3b &pixel); a Vec3b read
\* from a cv::Mat is in B, G, R order: pixel[0] is <<b, g, r>>[1] here.
apply_color_to_ascii(pixel) ==
    LET r == pixel[3]
        g == pixel[2]
        b == pixel[1]
    IN  EscapePrefix \o to_string(r) \o <<";">> \o to_string(g) \o <<";">>
            \o to_string(b) \o <<"m">>
            \o <<pixel_to_ascii(Frac(r + g + b, 3))>>

(* ------------------------------ frame converter ------------------------ *)

\* A cv::Mat of the given size whose pixel (i, j) is at[<<i, j>>].
Mat(rows, cols, at) == [rows |-> rows, cols |-> cols, at |-> at]

RECURSIVE ConvertRow_right_to_left(_, _, _)
ConvertRow_right_to_left(frame, i, j) ==
    IF j < frame.cols
    THEN apply_color_to_ascii(frame.at[<<i, frame.cols - 1 - j>>])
             \o ConvertRow_right_to_left(frame, i, j + 1)
    ELSE <<"\n">>

RECURSIVE ConvertRow(_, _, _)
\* The inner loop of convert_frame_to_ascii from column j on, and the '\n'.
ConvertRow(frame, i, j) ==
    IF j < frame.cols
    THEN apply_color_to_ascii(frame.at[<<i, j>>]) \o ConvertRow(frame, i, j + 1)
    ELSE <<"\n">>

RECURSIVE ConvertRows(_, _)
\* The outer loop of convert_frame_to_ascii from row i on.
ConvertRows(frame, i) ==
    IF i < frame.rows
    THEN ConvertRow(frame, i, 0) \o ConvertRows(frame, i + 1)
    ELSE <<>>

\* std::string convert_frame_to_ascii(const cv::Mat &frame)
convert_frame_to_ascii(frame) == ConvertRows(frame, 0)

(* ------------------------------ the video ------------------------------ *)

\* Pixels (B, G, R) the frames of the modelled videos are made of.
Palette == << <<0, 0, 0>>, <<255, 255, 255>>, <<255, 128, 0>> >>

\* Frame i (from 0) of the video after cv::resize: one pixel, the palette
\* cycling so that neighbouring frames differ.
VideoFrame(i) ==
    Mat(1, 1, [p \in {<<0, 0>>} |-> Palette[(i % Len(Palette)) + 1]])

\* The frames video_capture.read yields for a video of n frames.
Video(n) == [i \in 1..n |-> VideoFrame(i - 1)]

\* Values CAP_PROP_FRAME_COUNT reports for a video of n readable frames: the
\* container's count, which need not be the number of frames that decode
\* (here: that number, or one more).
FrameCounts(n) == {t \in 1..(n + 1) : t >= n}

(* ------------------------------ state ---------------------------------- *)

VARIABLES
    preload,            \* --preload was given
    hardware,           \* what std::thread::hardware_concurrency() returns
    frames,             \* preload: std::vector<cv::Mat> frames; else the stream
    total_frames,       \* const int total_frames
    mainpc,             \* where main() is
    ascii_frames,       \* std::vector<std::string> ascii_frames
    num_threads,        \* int num_threads
    frames_per_thread,  \* int frames_per_thread
    futures,            \* the tasks std::async started, in spawn order
    joined,             \* how many futures fut.get() has returned for
    shown,              \* frames written to the terminal so far
    completed_frames,   \* std::atomic<int> completed_frames
    last_progress,      \* static float last_progress of display_progress
    progress_mutex,     \* owner of std::mutex progress_mutex, or NoOwner
    cout,               \* what has been written to std::cout, in order
    writes              \* per output slot, how many times it was assigned

\* What main() is given and never changes.
inputs == <<preload, hardware, frames, total_frames>>

batchVars == <<inputs, mainpc, ascii_frames,
               num_threads, frames_per_thread, futures, joined, shown,
               completed_frames, last_progress, progress_mutex, cout, writes>>

VARIABLES
    mode,               \* which function is applied to a drawn input
    brightness,         \* argument of pixel_to_ascii
    glyph,              \* its result, "" before the call
    darker,             \* an earlier, not brighter, argument and its result
    px,                 \* argument of apply_color_to_ascii
    unit,               \* its result, <<>> before the call
    frame,              \* argument of convert_frame_to_ascii
    text,               \* its result
    converted           \* the call has returned

pureVars == <<mode, brightness, glyph, darker, px, unit, frame, text, converted>>

vars == <<batchVars, pureVars>>

N == Len(frames)

\* Worker ids are 0-based, as the loop variable i of main.
Workers == 0..(Len(futures) - 1)

Task(k) == futures[k + 1]

(* ------------------------------ initial states ------------------------- *)

\* The function-level variables while main() runs.
PureIdle ==
    /\ mode = "main"
    /\ brightness = Frac(0, 1)
    /\ glyph = ""
    /\ darker = [brightness |-> Frac(0, 1), glyph |-> ""]
    /\ px = <<0, 0, 0>>
    /\ unit = <<>>
    /\ frame = Mat(0, 0, <<>>)
    /\ text = <<>>
    /\ converted = FALSE

\* main() at line 118: the video is open, its parameters are read.
Init ==
    /\ preload \in BOOLEAN
    /\ hardware \in 0..MaxThreads
    /\ \E n \in 0..MaxFrames :
         /\ frames = Video(n)
         /\ total_frames \in FrameCounts(n)
    /\ mainpc = IF preload THEN "preload" ELSE "stream"
    /\ ascii_frames = <<>>
    /\ num_threads = 0
    /\ frames_per_thread = 0
    /\ futures = <<>>
    /\ joined = 0
    /\ shown = 0
    /\ completed_frames = 0
    /\ last_progress = Frac(-1, 1)
    /\ progress_mutex = NoOwner
    /\ cout = <<>>
    /\ writes = [i \in 1..N |-> 0]
    /\ PureIdle

(* ------------------------------ main: dispatch ------------------------- *)

FramesPerThread_rounded_up(size, threads) ==
    (size + threads - 1) \div threads

\* int frames_per_thread = frames.size() / num_threads;  (num_threads > 0)
FramesPerThread(size, threads) == size \div threads

StartOf_overlapping(i, per_thread) ==
    IF i * per_thread > 0 THEN i * per_thread - 1 ELSE 0

\* int start = i * frames_per_thread;
StartOf(i, per_thread) == i * per_thread

EndOf_no_remainder(i, threads, per_thread, size) == (i + 1) * per_thread

\* int end = (i == num_threads - 1) ? frames.size()
\*                                   : (i + 1) * frames_per_thread;
EndOf(i, threads, per_thread, size) ==
    IF i = threads - 1 THEN size ELSE (i + 1) * per_thread

\* Where a task stands once it has left loop index i: the loop test i < end.
LoopAt(task, i) ==
    [task EXCEPT !.i = i, !.pc = IF i < task.end THEN "convert" ELSE "done"]

\* A task as std::async(std::launch::async, process_frames, start, end, ...)
\* starts it.
NewTask(start, end) ==
    LoopAt([start |-> start, end |-> end, i |-> start, pc |-> "convert",
            progress |-> Frac(0, 1)], start)

\* Lines 126-128 with hardware_concurrency() > 0.
Allocate ==
    /\ mainpc = "preload"
    /\ hardware > 0
    /\ num_threads' = hardware
    /\ frames_per_thread' = FramesPerThread(N, hardware)
    /\ ascii_frames' = [i \in 1..N |-> <<>>]
    /\ mainpc' = "spawn"
    /\ UNCHANGED <<pureVars, inputs, futures, joined, shown, completed_frames,
                   last_progress, progress_mutex, cout, writes>>

\* Lines 126-128 with hardware_concurrency() = 0: frames.size() / 0 is
\* undefined; the division traps (SIGFPE, as on x86) ...
AllocateZeroTrap ==
    /\ mainpc = "preload"
    /\ hardware = 0
    /\ num_threads' = 0
    /\ ascii_frames' = [i \in 1..N |-> <<>>]
    /\ mainpc' = "crashed"
    /\ UNCHANGED <<pureVars, inputs, frames_per_thread, futures, joined,
                   shown, completed_frames, last_progress, progress_mutex,
                   cout, writes>>

\* ... or yields a quotient (0, as the AArch64 divide does) and main goes on.
AllocateZeroQuotient ==
    /\ mainpc = "preload"
    /\ hardware = 0
    /\ num_threads' = 0
    /\ frames_per_thread' = 0
    /\ ascii_frames' = [i \in 1..N |-> <<>>]
    /\ mainpc' = "spawn"
    /\ UNCHANGED <<pureVars, inputs, futures, joined, shown, completed_frames,
                   last_progress, progress_mutex, cout, writes>>

\* One iteration of the loop of lines 131-136.
Spawn ==
    /\ mainpc = "spawn"
    /\ Len(futures) < num_threads
    /\ LET i == Len(futures)
           start == StartOf(i, frames_per_thread)
           end == EndOf(i, num_threads, frames_per_thread, N)
       IN  futures' = Append(futures, NewTask(start, end))
    /\ UNCHANGED <<pureVars, inputs, mainpc, ascii_frames, num_threads,
                   frames_per_thread, joined, shown, completed_frames,
                   last_progress, progress_mutex, cout, writes>>

\* The loop of lines 131-136 ends.
SpawnEnd ==
    /\ mainpc = "spawn"
    /\ Len(futures) >= num_threads
    /\ mainpc' = "join"
    /\ UNCHANGED <<pureVars, inputs, ascii_frames, num_threads,
                   frames_per_thread, futures, joined, shown,
                   completed_frames, last_progress, progress_mutex, cout,
                   writes>>

Join_waits_for_total ==
    /\ mainpc = "join"
    /\ joined < Len(futures)
    /\ Task(joined).pc = "done"
    /\ completed_frames = total_frames
    /\ joined' = joined + 1
    /\ UNCHANGED <<pureVars, inputs, mainpc, ascii_frames, num_threads,
                   frames_per_thread, futures, shown, completed_frames,
                   last_progress, progress_mutex, cout, writes>>

\* Line 137, one fut.get(): it returns once that task has finished.
Join ==
    /\ mainpc = "join"
    /\ joined < Len(futures)
    /\ Task(joined).pc = "done"
    /\ joined' = joined + 1
    /\ UNCHANGED <<pureVars, inputs, mainpc, ascii_frames, num_threads,
                   frames_per_thread, futures, shown, completed_frames,
                   last_progress, progress_mutex, cout, writes>>

\* Lines 137-140: the last fut.get() has returned; std::endl, and
\* display_ascii_video is entered.
JoinEnd ==
    /\ mainpc = "join"
    /\ joined = Len(futures)
    /\ cout' = Append(cout, [kind |-> "endl"])
    /\ mainpc' = "display"
    /\ UNCHANGED <<pureVars, inputs, ascii_frames, num_threads,
                   frames_per_thread, futures, joined, shown,
                   completed_frames, last_progress, progress_mutex, writes>>

\* display_ascii_video, one iteration: the next frame is written.
Show ==
    /\ mainpc = "display"
    /\ shown < Len(ascii_frames)
    /\ cout' = Append(cout, [kind |-> "frame", text |-> ascii_frames[shown + 1]])
    /\ shown' = shown + 1
    /\ UNCHANGED <<pureVars, inputs, mainpc, ascii_frames, num_threads,
                   frames_per_thread, futures, joined, completed_frames,
                   last_progress, progress_mutex, writes>>

StreamFrame_counting ==
    /\ mainpc = "stream"
    /\ shown < N
    /\ cout' = Append(cout, [kind |-> "frame",
                             text |-> convert_frame_to_ascii(frames[shown + 1])])
    /\ shown' = shown + 1
    /\ completed_frames' = completed_frames + 1
    /\ UNCHANGED <<pureVars, inputs, mainpc, ascii_frames, num_threads,
                   frames_per_thread, futures, joined,
                   last_progress, progress_mutex, writes>>

\* Lines 143-150, one iteration of streaming mode: read, convert, write.
StreamFrame ==
    /\ mainpc = "stream"
    /\ shown < N
    /\ cout' = Append(cout, [kind |-> "frame",
                             text |-> convert_frame_to_ascii(frames[shown + 1])])
    /\ shown' = shown + 1
    /\ UNCHANGED <<pureVars, inputs, mainpc, ascii_frames, num_threads,
                   frames_per_thread, futures, joined, completed_frames,
                   last_progress, progress_mutex, writes>>

\* Lines 153-161: playback is over, the statistics are written, main returns.
Finish ==
    /\ \/ mainpc = "display" /\ shown >= Len(ascii_frames)
       \/ mainpc = "stream" /\ shown >= N
    /\ cout' = Append(cout, [kind |-> "stats"])
    /\ mainpc' = "done"
    /\ UNCHANGED <<pureVars, inputs, ascii_frames, num_threads,
                   frames_per_thread, futures, joined, shown,
                   completed_frames, last_progress, progress_mutex, writes>>

(* ------------------------------ process_frames ------------------------- *)

\* futures with task k replaced.
WithTask(k, task) == [futures EXCEPT ![k + 1] = task]

SlotOf_start(task) == task.start + 1

\* The element ascii_frames[i] and frames[i] of the current iteration
\* (sequences are 1-based here).
SlotOf(task) == task.i + 1

\* Line 63: ascii_frames[i] = convert_frame_to_ascii(frames[i]);
Convert(k) ==
    /\ Task(k).pc = "convert"
    /\ LET slot == SlotOf(Task(k))
       IN  /\ ascii_frames' = [ascii_frames EXCEPT
                                 ![slot] = convert_frame_to_ascii(frames[slot])]
           /\ writes' = [writes EXCEPT ![slot] = @ + 1]
    /\ futures' = WithTask(k, [Task(k) EXCEPT !.pc = "increment"])
    /\ UNCHANGED <<pureVars, inputs, mainpc, num_threads, frames_per_thread,
                   joined, shown, completed_frames, last_progress,
                   progress_mutex, cout>>

Increment_local_index(k) ==
    /\ Task(k).pc = "increment"
    /\ completed_frames' = Task(k).i - Task(k).start + 1
    /\ futures' = WithTask(k, [Task(k) EXCEPT !.pc = "load"])
    /\ UNCHANGED <<pureVars, inputs, mainpc, ascii_frames, num_threads,
                   frames_per_thread, joined, shown, last_progress,
                   progress_mutex, cout, writes>>

\* Line 64: ++completed_frames; (one atomic read-modify-write)
Increment(k) ==
    /\ Task(k).pc = "increment"
    /\ completed_frames' = completed_frames + 1
    /\ futures' = WithTask(k, [Task(k) EXCEPT !.pc = "load"])
    /\ UNCHANGED <<pureVars, inputs, mainpc, ascii_frames, num_threads,
                   frames_per_thread, joined, shown, last_progress,
                   progress_mutex, cout, writes>>

\* Line 65: the argument static_cast<float>(completed_frames) / total_frames,
\* from a second, separate atomic load of the counter.
LoadCompleted(k) ==
    /\ Task(k).pc = "load"
    /\ futures' = WithTask(k, [Task(k) EXCEPT
                                 !.progress = Frac(completed_frames, total_frames),
                                 !.pc = "check"])
    /\ UNCHANGED <<pureVars, inputs, mainpc, ascii_frames, num_threads,
                   frames_per_thread, joined, shown, completed_frames,
                   last_progress, progress_mutex, cout, writes>>

(* ------------------------------ display_progress ----------------------- *)
(* last_progress is read (line 46) and written (line 47) without the       *)
(* mutex: a data race.  The read and the write are separate steps, so      *)
(* every order of the unsynchronised accesses of the tasks is a behaviour. *)
(***************************************************************************)

\* Line 46, taken: if (progress - last_progress < 0.05f) return;
SkipReport(k) ==
    /\ Task(k).pc = "check"
    /\ DiffBelowThreshold(Task(k).progress, last_progress)
    /\ futures' = WithTask(k, LoopAt(Task(k), Task(k).i + 1))
    /\ UNCHANGED <<pureVars, inputs, mainpc, ascii_frames, num_threads,
                   frames_per_thread, joined, shown, completed_frames,
                   last_progress, progress_mutex, cout, writes>>

\* Line 46, not taken.
PassThreshold(k) ==
    /\ Task(k).pc = "check"
    /\ ~DiffBelowThreshold(Task(k).progress, last_progress)
    /\ futures' = WithTask(k, [Task(k) EXCEPT !.pc = "store"])
    /\ UNCHANGED <<pureVars, inputs, mainpc, ascii_frames, num_threads,
                   frames_per_thread, joined, shown, completed_frames,
                   last_progress, progress_mutex, cout, writes>>

\* Line 47: last_progress = progress;
StoreLast(k) ==
    /\ Task(k).pc = "store"
    /\ last_progress' = Task(k).progress
    /\ futures' = WithTask(k, [Task(k) EXCEPT !.pc = "lock"])
    /\ UNCHANGED <<pureVars, inputs, mainpc, ascii_frames, num_threads,
                   frames_per_thread, joined, shown, completed_frames,
                   progress_mutex, cout, writes>>

Lock_unguarded(k) ==
    /\ Task(k).pc = "lock"
    /\ progress_mutex' = k
    /\ futures' = WithTask(k, [Task(k) EXCEPT !.pc = "print"])
    /\ UNCHANGED <<pureVars, inputs, mainpc, ascii_frames, num_threads,
                   frames_per_thread, joined, shown, completed_frames,
                   last_progress, cout, writes>>

\* Line 49: std::lock_guard<std::mutex> lock(progress_mutex);
Lock(k) ==
    /\ Task(k).pc = "lock"
    /\ progress_mutex = NoOwner
    /\ progress_mutex' = k
    /\ futures' = WithTask(k, [Task(k) EXCEPT !.pc = "print"])
    /\ UNCHANGED <<pureVars, inputs, mainpc, ascii_frames, num_threads,
                   frames_per_thread, joined, shown, completed_frames,
                   last_progress, cout, writes>>

\* The line lines 50-55 write for this progress value: pos cells "=", the
\* cursor ">" at cell pos if there is one, and the percentage.
BarLine(progress) ==
    [kind |-> "bar", progress |-> progress,
     pos |-> ScaleToInt(bar_width, progress),
     percent |-> ScaleToInt(100, progress)]

PrintBar_keeps_lock(k) ==
    /\ Task(k).pc = "print"
    /\ progress_mutex = k
    /\ cout' = Append(cout, BarLine(Task(k).progress))
    /\ futures' = WithTask(k, LoopAt(Task(k), Task(k).i + 1))
    /\ UNCHANGED <<pureVars, inputs, mainpc, ascii_frames, num_threads,
                   frames_per_thread, joined, shown, completed_frames,
                   last_progress, progress_mutex, writes>>

\* Lines 50-57: the bar is written and flushed, the lock_guard releases the
\* mutex, display_progress returns and the loop of process_frames goes on.
PrintBar(k) ==
    /\ Task(k).pc = "print"
    /\ progress_mutex = k
    /\ cout' = Append(cout, BarLine(Task(k).progress))
    /\ progress_mutex' = NoOwner
    /\ futures' = WithTask(k, LoopAt(Task(k), Task(k).i + 1))
    /\ UNCHANGED <<pureVars, inputs, mainpc, ascii_frames, num_threads,
                   frames_per_thread, joined, shown, completed_frames,
                   last_progress, writes>>

\* One step of one of the running tasks.
process_frames ==
    \/ \E k \in Workers : Convert(k)
    \/ \E k \in Workers : Increment(k)
    \/ \E k \in Workers : LoadCompleted(k)
    \/ \E k \in Workers : SkipReport(k)
    \/ \E k \in Workers : PassThreshold(k)
    \/ \E k \in Workers : StoreLast(k)
    \/ \E k \in Workers : Lock(k)
    \/ \E k \in Workers : PrintBar(k)

(* ------------------------------ specification -------------------------- *)

Next ==
    \/ Allocate
    \/ AllocateZeroTrap
    \/ AllocateZeroQuotient
    \/ Spawn
    \/ SpawnEnd
    \/ Join
    \/ JoinEnd
    \/ Show
    \/ StreamFrame
    \/ Finish
    \/ process_frames

Spec == Init /\ [][Next]_vars

(* ------------------------------ fair scheduling ------------------------ *)

\* A step of the main thread.
MainStep ==
    \/ Allocate
    \/ AllocateZeroTrap
    \/ AllocateZeroQuotient
    \/ Spawn
    \/ SpawnEnd
    \/ Join
    \/ JoinEnd
    \/ Show
    \/ StreamFrame
    \/ Finish

\* A step of the task started by iteration k of the loop of lines 131-136.
WorkerStep(k) ==
    /\ k \in Workers
    /\ \/ Convert(k)
       \/ Increment(k)
       \/ LoadCompleted(k)
       \/ SkipReport(k)
       \/ PassThreshold(k)
       \/ StoreLast(k)
       \/ Lock(k)
       \/ PrintBar(k)

\* std::launch::async gives every task a thread of its own (line 134), and
\* the operating system lets every thread that can run take a step.
SpecFair ==
    /\ Spec
    /\ WF_vars(MainStep)
    /\ \A k \in 0..(MaxThreads - 1) : WF_vars(WorkerStep(k))

(* ------------------- the dispatcher alone: larger batches -------------- *)

\* Largest batch and largest hardware_concurrency() for the dispatch loop
\* taken alone.
MaxBatch == 7

MaxPool == 4

\* As Init, in preload mode, with larger batches and pools.
InitDispatch ==
    /\ preload = TRUE
    /\ hardware \in 0..MaxPool
    /\ \E n \in 0..MaxBatch :
         /\ frames = Video(n)
         /\ total_frames \in FrameCounts(n)
    /\ mainpc = "preload"
    /\ ascii_frames = <<>>
    /\ num_threads = 0
    /\ frames_per_thread = 0
    /\ futures = <<>>
    /\ joined = 0
    /\ shown = 0
    /\ completed_frames = 0
    /\ last_progress = Frac(-1, 1)
    /\ progress_mutex = NoOwner
    /\ cout = <<>>
    /\ writes = [i \in 1..N |-> 0]
    /\ PureIdle

\* Lines 126-136 of main: the steps up to the end of the spawn loop, before
\* any task has been scheduled.
NextDispatch ==
    \/ Allocate
    \/ AllocateZeroTrap
    \/ AllocateZeroQuotient
    \/ Spawn
    \/ SpawnEnd

SpecDispatch == InitDispatch /\ [][NextDispatch]_vars

(* ------------------- one task, long batches ---------------------------- *)

\* Batches long enough for one frame to be less than 5% of the total, with a
\* single task.  (The frame counts stay strictly between 20 and 40.)
MinLong == 22

MaxLong == 23

InitLong ==
    /\ preload = TRUE
    /\ hardware = 1
    /\ \E n \in MinLong..MaxLong :
         /\ frames = Video(n)
         /\ total_frames \in FrameCounts(n)
    /\ mainpc = "preload"
    /\ ascii_frames = <<>>
    /\ num_threads = 0
    /\ frames_per_thread = 0
    /\ futures = <<>>
    /\ joined = 0
    /\ shown = 0
    /\ completed_frames = 0
    /\ last_progress = Frac(-1, 1)
    /\ progress_mutex = NoOwner
    /\ cout = <<>>
    /\ writes = [i \in 1..N |-> 0]
    /\ PureIdle

\* The steps of preload mode with hardware_concurrency() > 0.
NextLong ==
    \/ Allocate
    \/ Spawn
    \/ SpawnEnd
    \/ Join
    \/ JoinEnd
    \/ Show
    \/ Finish
    \/ process_frames

SpecLong == InitLong /\ [][NextLong]_vars

(* ------------------- the conversion functions alone -------------------- *)

\* The arguments pixel_to_ascii is called with: (r + g + b) / 3.0.
Brightnesses == {Frac(s, 3) : s \in 0..(3 * MaxChannel)}

\* The channel values pixels are drawn from: every red, a few greens and
\* blues, so that every sum r + g + b in 0..765 occurs.
Reds == 0..MaxChannel

Greens == {0, 128, MaxChannel}

Blues == {0, 7, MaxChannel}

\* Every frame of the given size over the palette.
Mats(rows, cols) ==
    {Mat(rows, cols, at) :
        at \in [(0..(rows - 1)) \X (0..(cols - 1)) ->
                    {Palette[c] : c \in 1..Len(Palette)}]}

\* main() is not running.
BatchIdle ==
    /\ preload = FALSE
    /\ hardware = 0
    /\ frames = <<>>
    /\ total_frames = 1
    /\ mainpc = "idle"
    /\ ascii_frames = <<>>
    /\ num_threads = 0
    /\ frames_per_thread = 0
    /\ futures = <<>>
    /\ joined = 0
    /\ shown = 0
    /\ completed_frames = 0
    /\ last_progress = Frac(-1, 1)
    /\ progress_mutex = NoOwner
    /\ cout = <<>>
    /\ writes = <<>>

\* One of the three functions is about to be called on a drawn argument.
InitPure ==
    /\ BatchIdle
    /\ mode \in {"glyph", "pixel", "frame"}
    /\ brightness \in (IF mode = "glyph" THEN Brightnesses ELSE {Frac(0, 1)})
    /\ glyph = ""
    /\ darker = [brightness |-> Frac(0, 1), glyph |-> ""]
    /\ px \in (IF mode = "pixel" THEN Blues \X Greens \X Reds ELSE {<<0, 0, 0>>})
    /\ unit = <<>>
    /\ frame \in (IF mode = "frame"
                  THEN UNION {Mats(h, w) : h \in 0..MaxRows, w \in 0..MaxCols}
                  ELSE {Mat(0, 0, <<>>)})
    /\ text = <<>>
    /\ converted = FALSE

\* glyph = pixel_to_ascii(brightness)
MapGlyph ==
    /\ mode = "glyph"
    /\ glyph = ""
    /\ glyph' = pixel_to_ascii(brightness)
    /\ UNCHANGED <<mode, brightness, darker, px, unit, frame, text, converted>>
    /\ UNCHANGED batchVars

\* A second call of pixel_to_ascii, with an argument at least as bright.
MapBrighter ==
    /\ mode = "glyph"
    /\ glyph # ""
    /\ darker.glyph = ""
    /\ darker' = [brightness |-> brightness, glyph |-> glyph]
    /\ \E b \in Brightnesses :
         /\ ~FracLess(b, brightness)
         /\ brightness' = b
         /\ glyph' = pixel_to_ascii(b)
    /\ UNCHANGED <<mode, px, unit, frame, text, converted>>
    /\ UNCHANGED batchVars

\* unit = apply_color_to_ascii(px)
EncodePixel ==
    /\ mode = "pixel"
    /\ ~converted
    /\ unit' = apply_color_to_ascii(px)
    /\ converted' = TRUE
    /\ UNCHANGED <<mode, brightness, glyph, darker, px, frame, text>>
    /\ UNCHANGED batchVars

\* text = convert_frame_to_ascii(frame)
ConvertFrame ==
    /\ mode = "frame"
    /\ ~converted
    /\ text' = convert_frame_to_ascii(frame)
    /\ converted' = TRUE
    /\ UNCHANGED <<mode, brightness, glyph, darker, px, unit, frame>>
    /\ UNCHANGED batchVars

NextPure ==
    \/ MapGlyph
    \/ MapBrighter
    \/ EncodePixel
    \/ ConvertFrame

SpecPure == InitPure /\ [][NextPure]_vars

(* ------------------------------ properties ----------------------------- *)

\* The batch conversion has finished: every fut.get() has returned.
BatchFinished == preload /\ mainpc \in {"display", "done"}

\* The progress lines written so far, in the order they were written.
Bars == SelectSeq(cout, LAMBDA line : line.kind = "bar")

\* The frames written to the terminal so far, in order.
Displayed == SelectSeq(cout, LAMBDA line : line.kind = "frame")

\* The index range [start, end) of a task, as a set.
RangeOf(task) == {x \in 0..N : task.start <= x /\ x < task.end}

\* C1: for any batch of N frames and any worker count W > 0, once the batch
\* conversion has finished the output sequence has length N and its i-th
\* element is convert(frames[i]): no frame is reordered, dropped or left
\* unconverted, whatever the interleaving of the workers.
C1_BatchConvertsEveryFrameInOrder ==
    (BatchFinished /\ num_threads > 0) =>
        /\ Len(ascii_frames) = N
        /\ \A i \in 1..N : ascii_frames[i] = convert_frame_to_ascii(frames[i])

\* A batch of 3 frames split unevenly over 2 tasks has been converted.
C1_Witness ==
    /\ BatchFinished
    /\ num_threads = 2
    /\ N = 3
    /\ \A k \in Workers : Task(k).pc = "done"
    /\ completed_frames = 3

\* C2: for W > 0, in every reachable state the index ranges of two different
\* workers are disjoint, and no output index has been written more than once.
C2_RangesDisjointSingleWrite ==
    num_threads > 0 =>
        /\ \A j, k \in Workers :
             j # k => RangeOf(Task(j)) \cap RangeOf(Task(k)) = {}
        /\ \A i \in 1..N : writes[i] <= 1

\* Two tasks with two frames each have both written their whole ranges.
C2_Witness ==
    /\ Len(futures) = 2
    /\ N = 4
    /\ \A k \in Workers :
         /\ Cardinality(RangeOf(Task(k))) = 2
         /\ Task(k).pc = "done"
    /\ \A i \in 1..N : writes[i] = 1

\* C3: playback does not begin until every spawned worker has finished its
\* whole range: in any state where playback has started, all workers are
\* done and all N output slots are filled.
C3_PlaybackOnlyAfterAllSlotsFilled ==
    (preload /\ mainpc \in {"display", "done"}) =>
        /\ \A k \in Workers : Task(k).pc = "done"
        /\ \A i \in 1..N : writes[i] >= 1

\* The part of C3 that is about joining, for a positive worker count.
JoinBeforePlayback ==
    (preload /\ mainpc \in {"display", "done"} /\ num_threads > 0) =>
        /\ \A k \in Workers : Task(k).pc = "done"
        /\ \A i \in 1..N : writes[i] >= 1

\* C4: within one batch the fractions written to the output stream are
\* non-decreasing, under every interleaving of the workers.  (Stated for a
\* frame count equal to the number of frames, so that the fractions are
\* completed/N.)
C4_ReportedFractionsNonDecreasing ==
    total_frames = N =>
        \A i, j \in 1..Len(Bars) :
            i < j => ~FracLess(Bars[j].progress, Bars[i].progress)

\* C5: for every batch of N >= 1 frames the report made when completed ==
\* total is written whatever the 5% threshold says, so the last progress
\* line of the batch shows exactly 100%.  (Stated for a positive worker
\* count and a frame count equal to the number of frames.)
C5_LastReportShowsHundredPercent ==
    (BatchFinished /\ N >= 1 /\ num_threads > 0 /\ total_frames = N) =>
        /\ Len(Bars) >= 1
        /\ Bars[Len(Bars)].percent = 100

\* C6: with chunk_size = floor(N / W), W >= 1, worker k in 0..W-2 is assigned
\* [k*chunk_size, (k+1)*chunk_size) and worker W-1 is assigned
\* [(W-1)*chunk_size, N), that is N - (W-1)*chunk_size frames; N = 5, W = 3
\* gives one frame to each of workers 0 and 1 and three frames to worker 2.
C6_PartitionBoundaries ==
    num_threads >= 1 =>
        LET W == num_threads
            chunk_size == N \div W
        IN  /\ \A k \in Workers :
                 /\ Task(k).start = k * chunk_size
                 /\ k <= W - 2 => Task(k).end = (k + 1) * chunk_size
                 /\ k = W - 1 =>
                      /\ Task(k).end = N
                      /\ Task(k).end - Task(k).start = N - (W - 1) * chunk_size
            /\ (N = 5 /\ W = 3 /\ Len(futures) = 3) =>
                 /\ <<Task(0).start, Task(0).end>> = <<0, 1>>
                 /\ <<Task(1).start, Task(1).end>> = <<1, 2>>
                 /\ <<Task(2).start, Task(2).end>> = <<2, 5>>

\* Five frames have been dealt out to three tasks.
C6_Witness ==
    /\ N = 5
    /\ num_threads = 3
    /\ Len(futures) = 3
    /\ mainpc = "join"

\* C7: when the batch is empty the conversion returns an empty output
\* sequence at once and spawns no worker at all.
C7_EmptyBatchSpawnsNoWorker ==
    (preload /\ N = 0) => (Len(futures) = 0 /\ Len(ascii_frames) = 0)

\* C8: the worker count the dispatcher uses is always at least 1: a reported
\* hardware concurrency of 0 is clamped to 1, nothing divides by zero, and
\* the batch is still fully converted.
C8_WorkerCountAtLeastOne ==
    (preload /\ mainpc # "preload") =>
        /\ num_threads >= 1
        /\ mainpc # "crashed"
        /\ mainpc \in {"display", "done"} =>
             \A i \in 1..N :
                 ascii_frames[i] = convert_frame_to_ascii(frames[i])


\* The place of a character in the ramp, from 0, or -1 if it is not in it.
PlaceInRamp(ch) ==
    IF \E k \in 1..Len(ASCII_CHARS) : ASCII_CHARS[k] = ch
    THEN (CHOOSE k \in 1..Len(ASCII_CHARS) : ASCII_CHARS[k] = ch) - 1
    ELSE -1

\* C9: for every brightness b in [0,255] the glyph mapper selects ramp index
\* floor(b*K/256) with K = 10; the index lies in 0..K-1, also for b = 255;
\* and the mapping is non-decreasing: b1 <= b2 implies index(b1) <= index(b2).
C9_GlyphIndexInRangeAndMonotone ==
    (mode = "glyph" /\ glyph # "") =>
        /\ PlaceInRamp(glyph) = (brightness.num * 10) \div (brightness.den * 256)
        /\ PlaceInRamp(glyph) \in 0..9
        /\ darker.glyph # "" =>
             /\ ~FracLess(brightness, darker.brightness)
             /\ PlaceInRamp(darker.glyph) \in 0..9
             /\ PlaceInRamp(darker.glyph) <= PlaceInRamp(glyph)

\* Brightness 255 has been mapped, to the last ramp character, after a
\* darker value was mapped to an earlier one.
C9_Witness ==
    /\ mode = "glyph"
    /\ brightness = Frac(3 * 255, 3)
    /\ glyph = "$"
    /\ darker.glyph = "+"

IsDigit(ch) == \E d \in 1..Len(Digits) : Digits[d] = ch

DigitValue(ch) == (CHOOSE d \in 1..Len(Digits) : Digits[d] = ch) - 1

RECURSIVE DecimalValue(_)
\* The number a string of digits denotes.
DecimalValue(str) ==
    IF str = <<>> THEN 0
    ELSE 10 * DecimalValue(SubSeq(str, 1, Len(str) - 1))
             + DigitValue(str[Len(str)])

\* str is n in decimal, without leading zeros or padding.
IsDecimalOf(str, n) ==
    /\ Len(str) >= 1
    /\ \A i \in 1..Len(str) : IsDigit(str[i])
    /\ Len(str) > 1 => str[1] # "0"
    /\ DecimalValue(str) = n

\* str is ESC[38;2;{r};{g};{b}m followed by the one character ch.
IsGlyphUnit(str, r, g, b, ch) ==
    \E lr, lg, lb \in 1..3 :
        /\ Len(str) = 7 + lr + 1 + lg + 1 + lb + 1 + 1
        /\ SubSeq(str, 1, 7) = <<"ESC", "[", "3", "8", ";", "2", ";">>
        /\ IsDecimalOf(SubSeq(str, 8, 7 + lr), r)
        /\ str[8 + lr] = ";"
        /\ IsDecimalOf(SubSeq(str, 9 + lr, 8 + lr + lg), g)
        /\ str[9 + lr + lg] = ";"
        /\ IsDecimalOf(SubSeq(str, 10 + lr + lg, 9 + lr + lg + lb), b)
        /\ str[10 + lr + lg + lb] = "m"
        /\ str[11 + lr + lg + lb] = ch

\* The 2x2 frame that is (0,0,0) everywhere.
BlackFrame == Mat(2, 2, [p \in (0..1) \X (0..1) |-> <<0, 0, 0>>])

BlackLine ==
    <<"ESC", "[", "3", "8", ";", "2", ";", "0", ";", "0", ";", "0", "m", ".",
      "ESC", "[", "3", "8", ";", "2", ";", "0", ";", "0", ";", "0", "m", ".",
      "\n">>

\* C10: for every pixel (r,g,b) the colour encoder's output is the
\* foreground escape with r, g, b in that order followed by exactly one
\* glyph, the ramp character at index floor((r+g+b)*K/768) (the mean is not
\* truncated before the mapping); a 2x2 all-black frame yields ramp index 0
\* for all four pixels.
C10_ColourEncoderOutput ==
    /\ (mode = "pixel" /\ converted) =>
         LET r == px[3]
             g == px[2]
             b == px[1]
         IN  IsGlyphUnit(unit, r, g, b,
                         ASCII_CHARS[(((r + g + b) * 10) \div 768) + 1])
    /\ (mode = "frame" /\ converted /\ frame = BlackFrame) =>
         text = BlackLine \o BlackLine

\* A pixel whose channel sum is 77 (mean 25.67, index 1 only if the mean is
\* not truncated) has been encoded.
C10_Witness ==
    /\ mode = "pixel"
    /\ converted
    /\ px = <<0, 0, 77>>
    /\ unit[Len(unit)] = "-"


\* The index of the first element of str, from position k on, that is ch;
\* Len(str) + 1 if there is none.
RECURSIVE FirstAt(_, _, _)
FirstAt(str, ch, k) ==
    IF k > Len(str) \/ str[k] = ch THEN k ELSE FirstAt(str, ch, k + 1)

\* The lines of a text: the pieces that end at each "\n", without it.
RECURSIVE LinesOf(_)
LinesOf(str) ==
    IF str = <<>> THEN <<>>
    ELSE LET k == FirstAt(str, "\n", 1)
         IN  <<SubSeq(str, 1, k - 1)>> \o LinesOf(SubSeq(str, k + 1, Len(str)))

\* The pieces of a line that begin at each "ESC".
RECURSIVE UnitsOf(_)
UnitsOf(line) ==
    IF line = <<>> THEN <<>>
    ELSE LET k == FirstAt(line, "ESC", 2)
         IN  <<SubSeq(line, 1, k - 1)>> \o UnitsOf(SubSeq(line, k, Len(line)))

\* C11: for a frame of height H and width W the frame converter's output is
\* exactly H newline-terminated lines of exactly W glyph units each, the
\* unit at line i, position j being the encoding of pixel (i, j): rows top
\* to bottom, columns left to right.
C11_FrameIsRowsOfUnits ==
    (mode = "frame" /\ converted) =>
        /\ text # <<>> => text[Len(text)] = "\n"
        /\ Len(LinesOf(text)) = frame.rows
        /\ \A i \in 1..frame.rows :
             LET units == UnitsOf(LinesOf(text)[i])
             IN  /\ Len(units) = frame.cols
                 /\ \A j \in 1..frame.cols :
                      LET pixel == frame.at[<<i - 1, j - 1>>]
                          sum == pixel[1] + pixel[2] + pixel[3]
                      IN  IsGlyphUnit(units[j], pixel[3], pixel[2], pixel[1],
                                      ASCII_CHARS[((sum * 10) \div 768) + 1])

\* A 2x2 frame whose four pixels are not all alike has been converted.
C11_Witness ==
    /\ mode = "frame"
    /\ converted
    /\ frame.rows = 2
    /\ frame.cols = 2
    /\ frame.at[<<0, 0>>] # frame.at[<<0, 1>>]
    /\ frame.at[<<0, 0>>] # frame.at[<<1, 0>>]
    /\ Len(text) > 4

\* C12: a frame of zero width or zero height is rejected or skipped: the
\* converter never returns an empty text frame, or one that consists of
\* newlines only, for such an input.
C12_EmptyFrameNotConverted ==
    (mode = "frame" /\ converted /\ (frame.rows = 0 \/ frame.cols = 0)) =>
        \E i \in 1..Len(text) : text[i] # "\n"


\* Where a task is between its increment of the counter and the end of the
\* iteration (inside display_progress, or about to call it).
AfterIncrement == {"load", "check", "store", "lock", "print"}

\* The iterations in which a task has passed line 63, and line 64.
StoredBy(task) ==
    (task.i - task.start)
        + (IF task.pc \in AfterIncrement \cup {"increment"} THEN 1 ELSE 0)

CountedBy(task) ==
    (task.i - task.start) + (IF task.pc \in AfterIncrement THEN 1 ELSE 0)

RECURSIVE SumOver(_, _)
\* The sum of Op(task) over the first n tasks; Op is StoredBy or CountedBy.
SumOver(counted, n) ==
    IF n = 0 THEN 0
    ELSE SumOver(counted, n - 1)
             + (IF counted THEN CountedBy(futures[n]) ELSE StoredBy(futures[n]))

\* The output slots that have been assigned.
FilledSlots == {i \in 1..N : writes[i] >= 1}

\* Every task of a positive worker count has been started and has finished.
AllWorkersFinished ==
    /\ num_threads > 0
    /\ Len(futures) = num_threads
    /\ \A k \in Workers : Task(k).pc = "done"

\* The state part of C13.
CounterInvariant ==
    /\ futures = <<>> => completed_frames = 0
    /\ completed_frames \in 0..N
    /\ completed_frames = SumOver(TRUE, Len(futures))
    /\ Cardinality(FilledSlots) = SumOver(FALSE, Len(futures))
    /\ completed_frames <= Cardinality(FilledSlots)
    /\ AllWorkersFinished => completed_frames = N

C14_LastProgressAccessedUnderLock ==
    \A k \in Workers :
        Task(k).pc \in {"check", "store"} => progress_mutex = k

\* C15: at most one worker at a time is writing a progress line, and it
\* writes the whole line while it holds the progress lock.
C15_OneBarWriterAtATime ==
    /\ [](/\ \A k \in Workers : Task(k).pc = "print" => progress_mutex = k
          /\ Cardinality({k \in Workers : Task(k).pc = "print"}) <= 1)
    /\ [][Bars' # Bars =>
            \E k \in Workers :
                /\ progress_mutex = k
                /\ Task(k).pc = "print"
                /\ cout' = Append(cout, BarLine(Task(k).progress))]_vars

\* One worker is writing its line while another waits for the lock.
C15_Witness ==
    \E k, other \in Workers :
        /\ Task(k).pc = "print"
        /\ progress_mutex = k
        /\ Task(other).pc = "lock"

\* C16: between two consecutive progress lines of a batch, the last line
\* of a finished batch set aside, the fraction grows by at least 0.05.
C16_ConsecutiveBarsGrowByThreshold ==
    total_frames = N =>
        \A i \in 1..(Len(Bars) - 1) :
            \/ Bars[i + 1].progress = Frac(N, N)
            \/ ~DiffBelowThreshold(Bars[i + 1].progress, Bars[i].progress)

\* C17: every fraction handed to display_progress is completed/N with
\* 0 < completed <= N.
C17_FractionsAreOverBatchSize ==
    \A k \in Workers :
        Task(k).pc \in {"check", "store", "lock", "print"} =>
            /\ Task(k).progress.den = N
            /\ Task(k).progress.num \in 1..N

\* C18: the progress lock is held only by a worker that is writing a
\* progress line; a worker that converts a frame or increments the counter
\* does not hold it, and neither of these steps waits for anything.
C18_LockHeldOnlyWhilePrinting ==
    \A k \in Workers :
        /\ progress_mutex = k => Task(k).pc = "print"
        /\ Task(k).pc \in {"convert", "increment"} => progress_mutex # k
        /\ Task(k).pc = "convert" => ENABLED Convert(k)
        /\ Task(k).pc = "increment" => ENABLED Increment(k)

\* One worker converts a frame while another holds the lock and prints.
C18_Witness ==
    \E k, other \in Workers :
        /\ progress_mutex = k
        /\ Task(k).pc = "print"
        /\ Task(other).pc = "convert"


\* C19: in streaming mode the frames are converted and written one at a
\* time in input order by main alone: no task exists, the completion
\* counter and the last reported fraction keep their initial values, the
\* progress lock is never taken and no progress line is written.
C19_StreamingLeavesBatchStateAlone ==
    ~preload =>
        /\ futures = <<>>
        /\ completed_frames = 0
        /\ last_progress = Frac(-1, 1)
        /\ progress_mutex = NoOwner
        /\ Bars = <<>>
        /\ ascii_frames = <<>>
        /\ shown <= N
        /\ Len(Displayed) = shown
        /\ \A i \in 1..shown :
               Displayed[i].text = convert_frame_to_ascii(frames[i])

\* Streaming mode has written three different frames and has finished.
C19_Witness ==
    /\ ~preload
    /\ mainpc = "done"
    /\ N = 3
    /\ shown = 3
    /\ Displayed[1].text # Displayed[2].text
    /\ Displayed[2].text # Displayed[3].text


\* A batch run on at least one hardware thread.
BatchWithWorkers == preload /\ hardware >= 1

\* The state part of C20: the program can take a step until main has
\* returned, the holder of the lock can always write its line and release
\* the lock, and a worker that is not waiting for the lock can always go on.
NoWorkerStuck ==
    BatchWithWorkers =>
        /\ mainpc # "done" => ENABLED Next
        /\ progress_mutex # NoOwner =>
               /\ progress_mutex \in Workers
               /\ ENABLED PrintBar(progress_mutex)
        /\ \A k \in Workers :
               Task(k).pc \notin {"lock", "done"} => ENABLED WorkerStep(k)
        /\ \A k \in Workers :
               (Task(k).pc = "lock" /\ progress_mutex = NoOwner) =>
                   ENABLED WorkerStep(k)

\* C20: for any batch size and at least one worker, under fair scheduling
\* every worker finishes its range and the batch conversion completes; the
\* lock is released by the worker that took it, a worker waits for nothing
\* but the lock, and no deadlock is reachable.
C20_BatchTerminates ==
    /\ []NoWorkerStuck
    /\ [][(progress_mutex # NoOwner /\ progress_mutex' # progress_mutex) =>
            /\ progress_mutex' = NoOwner
            /\ Task(progress_mutex).pc = "print"]_vars
    /\ [](progress_mutex # NoOwner => <>(progress_mutex = NoOwner))
    /\ BatchWithWorkers => <>(AllWorkersFinished /\ joined = num_threads)
    /\ BatchWithWorkers => <>(mainpc = "done")

\* A batch of four frames on two workers has run to the end of main with
\* at least two progress lines written.
C20_Witness ==
    /\ BatchWithWorkers
    /\ N = 4
    /\ Len(futures) = 2
    /\ AllWorkersFinished
    /\ Len(Bars) >= 2
    /\ mainpc = "done"

====
